---- MODULE Spec2Model ----
(***************************************************************************)
(* Model of src/Live_Trading_Algo.py: the Strategy object, its callbacks   *)
(* and the venue it trades on.                                             *)
(*                                                                         *)
(* Python floats are modelled as fixed-point integers:                     *)
(*   probabilities, edges, Kelly fractions, decay : units of 1/PScale      *)
(*   money (cash, capital, portfolio_value, pnl)  : cents (1/QScale)       *)
(*   quantities and position                      : 1/QScale of a share    *)
(*   prices                                       : whole dollars          *)
(*   momentum and event impacts                   : units of 1/MScale      *)
(*   time                                         : whole seconds          *)
(* so that quantity * price is money, and (price - 50) * 100 is the        *)
(* market-implied probability.  An Optional value is <<>> (None) or <<v>>. *)
(***************************************************************************)
EXTENDS Integers, Sequences, FiniteSets, TLC

VARIABLES
    self,          \* the Strategy object: a record of its attributes
    open_orders,   \* venue: accepted limit orders, neither filled nor cancelled
    market_queue,  \* venue: market orders placed, fill not yet reported
    venue_price,   \* venue: the price of the latest order-book update
    calls,         \* venue API calls issued by the latest game event, price or fill callback
    last,          \* which callback that was and what it decided
    n_events,      \* number of game events delivered so far
    probe          \* inputs and results of the function under test (pure specs)

vars == <<self, open_orders, market_queue, venue_price, calls, last, n_events, probe>>

\* ------------------------------------------------------------------ scales
PScale == 10000
QScale == 100
MScale == 1000

None == <<>>
Some(v) == <<v>>

Max(a, b) == IF a >= b THEN a ELSE b
Min(a, b) == IF a <= b THEN a ELSE b
Abs(a) == IF a < 0 THEN -a ELSE a

\* Quotient rounded toward zero (b > 0).
Quot(a, b) == IF a >= 0 THEN a \div b ELSE -((-a) \div b)

\* a * b / PScale without leaving 32 bits (0 <= b <= PScale, a >= 0).
MulFrac(a, b) == (a \div PScale) * b + ((a % PScale) * b) \div PScale

\* ------------------------------------------------------------------ bounds
MaxEvents == 2
MaxOpen == 2
MaxGap == 3

\* ------------------------------------------------------------------ program constants
StartCapital == 10000000
GameSeconds == 2880
MaxPositionSize == 2000000
MaxPortfolioRisk == 1000
KellyFraction == 10000
MinTradeSize == 10000
MomentumTau == 180
BaseProb == 5500
StartPrice == 55
ProbFloor == 500
ProbCeil == 9500
ConfidenceThreshold == 300
TakeProfit == 8000000
StopLoss == 5000000
LateGameSeconds == 600
LateGameScoreDiff == 5
LateGamePnl == 5500000
FinalSeconds == 3
PriceLow == 50
PriceHigh == 150
WinProbFloor == 5100
WinProbCeil == 9500
EInverse == 3679
ExpTerms == 8

\* ------------------------------------------------------------------ reset_state
reset_state ==
    [ home_score |-> 0,
      away_score |-> 0,
      time_remaining |-> GameSeconds,
      position |-> 0,
      capital |-> StartCapital,
      cash |-> StartCapital,
      portfolio_value |-> StartCapital,
      max_position_size |-> MaxPositionSize,
      max_portfolio_risk |-> MaxPortfolioRisk,
      kelly_fraction |-> KellyFraction,
      min_trade_size |-> MinTradeSize,
      model_prob |-> BaseProb,
      market_price |-> StartPrice,
      home_momentum |-> 0,
      away_momentum |-> 0,
      recent_events |-> <<>>,
      active_orders |-> <<>>,
      last_event_time |-> None,
      momentum_tau |-> MomentumTau ]

\* ------------------------------------------------------------------ converters
market_price_to_probability(price) == (price - PriceLow) * (PScale \div 100)

\* The expected price in cents.
probability_to_price(probability) == PriceLow * QScale + (probability * 100 * QScale) \div PScale

\* ------------------------------------------------------------------ probability model
\* Mutant of calculate_true_probability: the lower clamp is missing.
calculate_true_probability_NoFloor(s) ==
    IF s.time_remaining <= 0
    THEN IF s.home_score > s.away_score THEN PScale
         ELSE IF s.home_score < s.away_score THEN 0
         ELSE PScale \div 2
    ELSE LET score_diff == s.home_score - s.away_score
             score_impact == Quot(score_diff * (3 * (GameSeconds \div 2) - s.time_remaining) * 5, 36)
             momentum_impact == Quot((s.home_momentum - s.away_momentum) * 50, MScale)
         IN  Min(ProbCeil, BaseProb + score_impact + momentum_impact)

\* Mutant of calculate_true_probability: the outcome is certain only after time 0.
calculate_true_probability_StrictlyAfterEnd(s) ==
    IF s.time_remaining < 0
    THEN IF s.home_score > s.away_score THEN PScale
         ELSE IF s.home_score < s.away_score THEN 0
         ELSE PScale \div 2
    ELSE LET score_diff == s.home_score - s.away_score
             score_impact == Quot(score_diff * (3 * (GameSeconds \div 2) - s.time_remaining) * 5, 36)
             momentum_impact == Quot((s.home_momentum - s.away_momentum) * 50, MScale)
         IN  Max(ProbFloor, Min(ProbCeil, BaseProb + score_impact + momentum_impact))

calculate_true_probability(s) ==
    IF s.time_remaining <= 0
    THEN IF s.home_score > s.away_score THEN PScale
         ELSE IF s.home_score < s.away_score THEN 0
         ELSE PScale \div 2
    ELSE LET score_diff == s.home_score - s.away_score
             \* 0.02 * (1 + 2 * (1 - t/2880)) = (3 * 1440 - t) * 200 / 1440 in 1/PScale
             score_impact == Quot(score_diff * (3 * (GameSeconds \div 2) - s.time_remaining) * 5, 36)
             \* 0.005 in 1/PScale is 50
             momentum_impact == Quot((s.home_momentum - s.away_momentum) * 50, MScale)
             true_prob == BaseProb + score_impact + momentum_impact
         IN  Max(ProbFloor, Min(ProbCeil, true_prob))

get_event_impact(event_type, home_away, shot_type) ==
    LET impact ==
            IF event_type = "SCORE"
            THEN IF shot_type = Some("THREE_POINT") THEN 4 * MScale
                 ELSE IF shot_type = Some("DUNK") THEN 5 * MScale
                 ELSE 3 * MScale
            ELSE IF event_type = "MISSED" THEN -MScale
            ELSE IF event_type = "TURNOVER" THEN -2 * MScale
            ELSE IF event_type = "STEAL" THEN 2 * MScale
            ELSE IF event_type = "BLOCK" THEN (3 * MScale) \div 2
            ELSE IF event_type = "FOUL" THEN -MScale
            ELSE 0
    IN  IF home_away = "away" THEN -impact ELSE impact

\* ------------------------------------------------------------------ trade decision
\* Mutant of should_trade: a gap equal to the threshold trades.
should_trade_AtThreshold(model_prob, market_price) ==
    LET market_prob == market_price_to_probability(market_price)
    IN  IF model_prob >= market_prob + ConfidenceThreshold
        THEN [trade |-> TRUE, side |-> Some("BUY"), edge |-> model_prob - market_prob]
        ELSE IF model_prob <= market_prob - ConfidenceThreshold
        THEN [trade |-> TRUE, side |-> Some("SELL"), edge |-> market_prob - model_prob]
        ELSE [trade |-> FALSE, side |-> None, edge |-> 0]

should_trade(model_prob, market_price) ==
    LET market_prob == market_price_to_probability(market_price)
    IN  IF model_prob > market_prob + ConfidenceThreshold
        THEN [trade |-> TRUE, side |-> Some("BUY"), edge |-> model_prob - market_prob]
        ELSE IF model_prob < market_prob - ConfidenceThreshold
        THEN [trade |-> TRUE, side |-> Some("SELL"), edge |-> market_prob - model_prob]
        ELSE [trade |-> FALSE, side |-> None, edge |-> 0]

\* ------------------------------------------------------------------ position sizing
\* Mutant of calculate_position_size: the one-share minimum is missing.
calculate_position_size_NoMinimum(s, probability_edge, side, market_price) ==
    LET upside == IF side = "BUY" THEN PriceHigh - market_price ELSE market_price - PriceLow
        downside == IF side = "BUY" THEN market_price - PriceLow ELSE PriceHigh - market_price
    IN  IF upside <= 0 \/ downside <= 0
        THEN 0
        ELSE LET win_prob == Max(WinProbFloor, Min(WinProbCeil, PScale \div 2 + probability_edge * 2))
                 lose_prob == PScale - win_prob
                 kelly_raw == Quot(win_prob * upside - lose_prob * downside, upside)
                 kelly_fraction == (Max(0, kelly_raw) * s.kelly_fraction) \div PScale
                 position_dollars ==
                     Min(Min(MulFrac(s.capital, kelly_fraction), s.max_position_size),
                         IF side = "BUY" THEN s.cash ELSE Abs(s.position) * market_price)
             IN  Quot(Max(s.min_trade_size, position_dollars), market_price)

calculate_position_size(s, probability_edge, side, market_price) ==
    LET upside == IF side = "BUY" THEN PriceHigh - market_price ELSE market_price - PriceLow
        downside == IF side = "BUY" THEN market_price - PriceLow ELSE PriceHigh - market_price
    IN  IF upside <= 0 \/ downside <= 0
        THEN 0
        ELSE LET win_prob == Max(WinProbFloor, Min(WinProbCeil, PScale \div 2 + probability_edge * 2))
                 lose_prob == PScale - win_prob
                 \* (win_prob * b - lose_prob) / b with b = upside / downside
                 kelly_raw == Quot(win_prob * upside - lose_prob * downside, upside)
                 kelly_fraction == (Max(0, kelly_raw) * s.kelly_fraction) \div PScale
                 position_dollars ==
                     Min(Min(MulFrac(s.capital, kelly_fraction), s.max_position_size),
                         IF side = "BUY" THEN s.cash ELSE Abs(s.position) * market_price)
                 floored == Max(s.min_trade_size, position_dollars)
                 shares == Quot(floored, market_price)
             IN  Max(QScale, shares)

\* Mutant of can_afford_trade: a BUY is not checked against cash.
can_afford_trade_IgnoresCash(s, side, quantity, price) ==
    quantity <= s.max_position_size

can_afford_trade(s, side, quantity, price) ==
    IF side = "BUY"
    THEN quantity * price <= s.cash /\ quantity <= s.max_position_size
    ELSE quantity <= s.max_position_size

update_portfolio_value(s) ==
    [s EXCEPT !.portfolio_value = s.cash + s.position * s.market_price]

\* ------------------------------------------------------------------ venue API calls
MarketOrder(side, quantity) ==
    [op |-> "market", side |-> side, quantity |-> quantity, price |-> 0, id |-> 0]

LimitOrder(side, quantity, price, id) ==
    [op |-> "limit", side |-> side, quantity |-> quantity, price |-> price, id |-> id]

CancelOrder(id) ==
    [op |-> "cancel", side |-> "", quantity |-> 0, price |-> 0, id |-> id]

\* The closing market order of a position: none when flat.
ClosePosition(position) ==
    IF position > 0 THEN <<MarketOrder("SELL", Abs(position))>>
    ELSE IF position < 0 THEN <<MarketOrder("BUY", Abs(position))>>
    ELSE <<>>

\* ------------------------------------------------------------------ risk management
\* Mutant of check_risk_management: the late-game exit liquidates but does not reset.
check_risk_management_LateExitKeepsState(s) ==
    LET pnl == s.portfolio_value - StartCapital
        score_diff == Abs(s.home_score - s.away_score)
    IN  IF pnl >= TakeProfit
        THEN [self |-> reset_state, out |-> ClosePosition(s.position), fired |-> "take_profit"]
        ELSE IF pnl <= -StopLoss
        THEN [self |-> reset_state, out |-> ClosePosition(s.position), fired |-> "stop_loss"]
        ELSE IF s.time_remaining < LateGameSeconds /\ score_diff < LateGameScoreDiff
                /\ pnl > LateGamePnl
        THEN [self |-> s, out |-> ClosePosition(s.position), fired |-> "late_game"]
        ELSE [self |-> s, out |-> <<>>, fired |-> "none"]

\* Mutant of check_risk_management: take-profit needs pnl strictly above its level.
check_risk_management_StrictTakeProfit(s) ==
    LET pnl == s.portfolio_value - StartCapital
        score_diff == Abs(s.home_score - s.away_score)
    IN  IF pnl > TakeProfit
        THEN [self |-> reset_state, out |-> ClosePosition(s.position), fired |-> "take_profit"]
        ELSE IF pnl <= -StopLoss
        THEN [self |-> reset_state, out |-> ClosePosition(s.position), fired |-> "stop_loss"]
        ELSE IF s.time_remaining < LateGameSeconds /\ score_diff < LateGameScoreDiff
                /\ pnl > LateGamePnl
        THEN [self |-> reset_state, out |-> ClosePosition(s.position), fired |-> "late_game"]
        ELSE [self |-> s, out |-> <<>>, fired |-> "none"]

\* Mutant of check_risk_management: there is no stop-loss.
check_risk_management_NoStopLoss(s) ==
    LET pnl == s.portfolio_value - StartCapital
        score_diff == Abs(s.home_score - s.away_score)
    IN  IF pnl >= TakeProfit
        THEN [self |-> reset_state, out |-> ClosePosition(s.position), fired |-> "take_profit"]
        ELSE IF s.time_remaining < LateGameSeconds /\ score_diff < LateGameScoreDiff
                /\ pnl > LateGamePnl
        THEN [self |-> reset_state, out |-> ClosePosition(s.position), fired |-> "late_game"]
        ELSE [self |-> s, out |-> <<>>, fired |-> "none"]

\* Result: the state after the call, the orders it placed, the trigger that fired.
check_risk_management(s) ==
    LET pnl == s.portfolio_value - StartCapital
        tp_level == ((s.kelly_fraction * (TakeProfit \div QScale)) \div PScale) * QScale
        sl_level == -(((s.kelly_fraction * (StopLoss \div QScale)) \div PScale) * QScale)
        score_diff == Abs(s.home_score - s.away_score)
        Fire(name) == [self |-> reset_state, out |-> ClosePosition(s.position), fired |-> name]
    IN  IF pnl >= tp_level THEN Fire("take_profit")
        ELSE IF pnl <= sl_level THEN Fire("stop_loss")
        ELSE IF s.time_remaining < LateGameSeconds /\ score_diff < LateGameScoreDiff
                /\ pnl > LateGamePnl
        THEN Fire("late_game")
        ELSE [self |-> s, out |-> <<>>, fired |-> "none"]

\* ------------------------------------------------------------------ momentum decay
RECURSIVE PowE(_)
\* exp(-k) for a natural k, in 1/PScale.
PowE(k) == IF k = 0 THEN PScale ELSE (PowE(k - 1) * EInverse) \div PScale

RECURSIVE ExpSeries(_, _, _, _)
\* The alternating series of exp(-r/tau), 0 <= r < tau, from its n-th term on.
ExpSeries(r, tau, n, term) ==
    IF n > ExpTerms \/ term = 0
    THEN 0
    ELSE term - ExpSeries(r, tau, n + 1, (term * r) \div (tau * (n + 1)))

\* math.exp(-dt / tau) in 1/PScale, for dt >= 0.
ExpDecay(dt, tau) == (PowE(dt \div tau) * ExpSeries(dt % tau, tau, 0, PScale)) \div PScale

\* Mutant of ApplyDecay: an event without a time decays as if momentum_tau had passed.
ApplyDecay_DecaysUntimed(s, time_seconds) ==
    IF time_seconds = None
    THEN [s EXCEPT !.home_momentum = Quot(@ * ExpDecay(s.momentum_tau, s.momentum_tau), PScale),
                   !.away_momentum = Quot(@ * ExpDecay(s.momentum_tau, s.momentum_tau), PScale)]
    ELSE LET prev == IF s.last_event_time = None THEN time_seconds[1] ELSE s.last_event_time[1]
             dt == Max(0, prev - time_seconds[1])
             decay == ExpDecay(dt, s.momentum_tau)
         IN  [s EXCEPT !.home_momentum = Quot(@ * decay, PScale),
                       !.away_momentum = Quot(@ * decay, PScale),
                       !.last_event_time = time_seconds]

\* Lines 282-289: the decay of both momenta by the time since the last event.
ApplyDecay(s, time_seconds) ==
    IF time_seconds = None
    THEN s
    ELSE LET prev == IF s.last_event_time = None THEN time_seconds[1] ELSE s.last_event_time[1]
             dt == Max(0, prev - time_seconds[1])
             decay == ExpDecay(dt, s.momentum_tau)
         IN  [s EXCEPT !.home_momentum = Quot(@ * decay, PScale),
                       !.away_momentum = Quot(@ * decay, PScale),
                       !.last_event_time = time_seconds]

\* Lines 292-296: the scores, and the time when the event carries one.
UpdateGameState(s, ev) ==
    [s EXCEPT !.home_score = ev.home_score,
              !.away_score = ev.away_score,
              !.time_remaining = IF ev.time_seconds = None THEN @ ELSE ev.time_seconds[1]]

\* Lines 298-305: the event's impact on the acting side's momentum, then model_prob.
UpdateModel(s, ev) ==
    LET impact == get_event_impact(ev.event_type, ev.home_away, ev.shot_type)
        m == IF ev.home_away = "home"
             THEN [s EXCEPT !.home_momentum = @ + impact]
             ELSE [s EXCEPT !.away_momentum = @ + impact]
    IN  [m EXCEPT !.model_prob = calculate_true_probability(m)]

\* Mutant of TradeStep: the cancelled ids stay in active_orders.
TradeStep_KeepsCancelledIds(s, oid) ==
    LET signal == should_trade(s.model_prob, s.market_price)
    IN  IF ~signal.trade
        THEN [self |-> s, out |-> <<>>, signal |-> signal, quantity |-> 0, gate |-> FALSE]
        ELSE LET cancels == [i \in 1..Len(s.active_orders) |-> CancelOrder(s.active_orders[i])]
                 quantity == calculate_position_size(s, signal.edge, signal.side[1], s.market_price)
                 gate == can_afford_trade(s, signal.side[1], quantity, s.market_price)
                         /\ quantity > 0
             IN  IF gate
                 THEN [self |-> IF oid # 0 THEN [s EXCEPT !.active_orders = Append(@, oid)] ELSE s,
                       out |-> Append(cancels, LimitOrder(signal.side[1], quantity, s.market_price, oid)),
                       signal |-> signal, quantity |-> quantity, gate |-> TRUE]
                 ELSE [self |-> s, out |-> cancels,
                       signal |-> signal, quantity |-> quantity, gate |-> FALSE]

\* Mutant of TradeStep: the id of the new order is appended twice.
TradeStep_TracksTwice(s, oid) ==
    LET signal == should_trade(s.model_prob, s.market_price)
    IN  IF ~signal.trade
        THEN [self |-> s, out |-> <<>>, signal |-> signal, quantity |-> 0, gate |-> FALSE]
        ELSE LET cancels == [i \in 1..Len(s.active_orders) |-> CancelOrder(s.active_orders[i])]
                 c == [s EXCEPT !.active_orders = <<>>]
                 quantity == calculate_position_size(c, signal.edge, signal.side[1], c.market_price)
                 gate == can_afford_trade(c, signal.side[1], quantity, c.market_price)
                         /\ quantity > 0
             IN  IF gate
                 THEN [self |-> IF oid # 0 THEN [c EXCEPT !.active_orders = <<oid, oid>>] ELSE c,
                       out |-> Append(cancels, LimitOrder(signal.side[1], quantity, c.market_price, oid)),
                       signal |-> signal, quantity |-> quantity, gate |-> TRUE]
                 ELSE [self |-> c, out |-> cancels,
                       signal |-> signal, quantity |-> quantity, gate |-> FALSE]

\* Lines 312-342: the trade decision.  oid is the id place_limit_order returns.
\* Result: the state after it, the venue calls issued, and what was decided.
TradeStep(s, oid) ==
    LET signal == should_trade(s.model_prob, s.market_price)
    IN  IF ~signal.trade
        THEN [self |-> s, out |-> <<>>, signal |-> signal, quantity |-> 0, gate |-> FALSE]
        ELSE LET cancels == [i \in 1..Len(s.active_orders) |-> CancelOrder(s.active_orders[i])]
                 c == [s EXCEPT !.active_orders = <<>>]
                 quantity == calculate_position_size(c, signal.edge, signal.side[1], c.market_price)
                 gate == can_afford_trade(c, signal.side[1], quantity, c.market_price)
                         /\ quantity > 0
             IN  IF gate
                 THEN [self |-> IF oid # 0 THEN [c EXCEPT !.active_orders = Append(@, oid)] ELSE c,
                       out |-> Append(cancels, LimitOrder(signal.side[1], quantity, c.market_price, oid)),
                       signal |-> signal, quantity |-> quantity, gate |-> TRUE]
                 ELSE [self |-> c, out |-> cancels,
                       signal |-> signal, quantity |-> quantity, gate |-> FALSE]

\* Mutant of EndOfGame: only the END_GAME event ends the game.
EndOfGame_IgnoresClock(s, ev) ==
    IF ev.event_type = "END_GAME"
    THEN [self |-> reset_state, out |-> ClosePosition(s.position), ended |-> TRUE]
    ELSE [self |-> s, out |-> <<>>, ended |-> FALSE]

\* Lines 355-364: the forced liquidation and reset at the end of a game.
EndOfGame(s, ev) ==
    IF ev.event_type = "END_GAME" \/ s.time_remaining < FinalSeconds
    THEN [self |-> reset_state, out |-> ClosePosition(s.position), ended |-> TRUE]
    ELSE [self |-> s, out |-> <<>>, ended |-> FALSE]

\* ------------------------------------------------------------------ callbacks
\* Lines 247-249: prints the trade; reads and assigns no attribute.
on_trade_update(s, side, quantity, price) == s

\* Mutant of on_orderbook_update: the portfolio value is not recomputed.
on_orderbook_update_Stale(s, price) == [s EXCEPT !.market_price = price]

on_orderbook_update(s, price) ==
    update_portfolio_value([s EXCEPT !.market_price = price])

\* Mutant of on_account_update: capital is not overwritten by the venue's figure.
on_account_update_KeepsCapital(s, side, price, quantity, capital_remaining) ==
    LET trade_value == quantity * price
        f == IF side = "BUY"
             THEN [s EXCEPT !.position = @ + quantity, !.cash = @ - trade_value]
             ELSE [s EXCEPT !.position = @ - quantity, !.cash = @ + trade_value]
    IN  update_portfolio_value(f)

on_account_update(s, side, price, quantity, capital_remaining) ==
    LET trade_value == quantity * price
        f == IF side = "BUY"
             THEN [s EXCEPT !.position = @ + quantity, !.cash = @ - trade_value]
             ELSE [s EXCEPT !.position = @ - quantity, !.cash = @ + trade_value]
    IN  update_portfolio_value([f EXCEPT !.capital = capital_remaining])

on_game_event_update(s, ev, oid) ==
    LET timed == UpdateGameState(ApplyDecay(s, ev.time_seconds), ev)
        modelled == UpdateModel(timed, ev)
        traded == TradeStep(modelled, oid)
        valued == update_portfolio_value(traded.self)
        risk == check_risk_management(valued)
        final == EndOfGame(risk.self, ev)
    IN  [self |-> final.self,
         out |-> traded.out \o risk.out \o final.out,
         info |-> [op |-> "game_event",
                   event_type |-> ev.event_type,
                   time_seconds |-> ev.time_seconds,
                   before |-> [position |-> s.position, cash |-> s.cash,
                               capital |-> s.capital, active_orders |-> s.active_orders,
                               time_remaining |-> s.time_remaining],
                   time_updated |-> timed.time_remaining,
                   model_prob |-> modelled.model_prob,
                   market_price |-> modelled.market_price,
                   signal |-> traded.signal,
                   quantity |-> traded.quantity,
                   gate |-> traded.gate,
                   traded |-> [position |-> traded.self.position, cash |-> traded.self.cash,
                               capital |-> traded.self.capital,
                               active_orders |-> traded.self.active_orders],
                   trade_out |-> traded.out,
                   at_risk |-> [portfolio_value |-> valued.portfolio_value,
                                time_remaining |-> valued.time_remaining,
                                home_score |-> valued.home_score,
                                away_score |-> valued.away_score,
                                position |-> valued.position],
                   fired |-> risk.fired,
                   risk_kept |-> (risk.self = valued),
                   after_risk |-> [portfolio_value |-> risk.self.portfolio_value,
                                   cash |-> risk.self.cash,
                                   capital |-> risk.self.capital,
                                   position |-> risk.self.position,
                                   time_remaining |-> risk.self.time_remaining,
                                   home_score |-> risk.self.home_score,
                                   away_score |-> risk.self.away_score],
                   risk_out |-> risk.out,
                   ended |-> final.ended,
                   end_out |-> final.out]]

\* What `last` holds after a callback that is not a game event.
OtherCallback(name) ==
    [op |-> name, event_type |-> "", time_seconds |-> None,
     before |-> [position |-> 0, cash |-> 0, capital |-> 0, active_orders |-> <<>>,
                 time_remaining |-> 0],
     time_updated |-> 0, model_prob |-> 0, market_price |-> 0,
     signal |-> [trade |-> FALSE, side |-> None, edge |-> 0],
     quantity |-> 0, gate |-> FALSE,
     traded |-> [position |-> 0, cash |-> 0, capital |-> 0, active_orders |-> <<>>],
     trade_out |-> <<>>,
     at_risk |-> [portfolio_value |-> 0, time_remaining |-> 0, home_score |-> 0,
                  away_score |-> 0, position |-> 0],
     fired |-> "none", risk_kept |-> TRUE,
     after_risk |-> [portfolio_value |-> 0, cash |-> 0, capital |-> 0, position |-> 0,
                     time_remaining |-> 0, home_score |-> 0, away_score |-> 0],
     risk_out |-> <<>>,
     ended |-> FALSE, end_out |-> <<>>]

NoProbe == [fn |-> "none"]

\* ------------------------------------------------------------------ inputs
\* (event_type, home_away, shot_type) of the plays delivered.
EventKinds ==
    { <<"SCORE", "home", None>>,
      <<"SCORE", "away", Some("THREE_POINT")>> }

\* (home_score, away_score)
Scores == { <<0, 0>>, <<2, 0>>, <<0, 30>> }

TimeStamps == { None, Some(720), Some(576), Some(2), Some(0) }

\* The END_GAME event comes without a time or at time 0.
EndStamps == { None, Some(0) }

Event(event_type, home_away, shot_type, score, time_seconds) ==
    [event_type |-> event_type, home_away |-> home_away, shot_type |-> shot_type,
     home_score |-> score[1], away_score |-> score[2], time_seconds |-> time_seconds]

Events ==
    { Event(k[1], k[2], k[3], sc, ts) : k \in EventKinds, sc \in Scores, ts \in TimeStamps }
    \cup { Event("END_GAME", "home", None, sc, ts) : sc \in Scores, ts \in EndStamps }

Prices == { 50, 55, 140, 150, 300 }

CapitalReports == { StartCapital \div 2 }

\* ------------------------------------------------------------------ venue
Ids(orders) == { o.id : o \in orders }
Range(seq) == { seq[i] : i \in 1..Len(seq) }

\* The smallest order id the venue has not in use.
FreshId ==
    LET used == Ids(open_orders) \cup Range(self.active_orders)
    IN  CHOOSE i \in 1..(Cardinality(used) + 1) :
            i \notin used /\ \A j \in 1..(i - 1) : j \in used

\* The venue's books after the calls of one callback.
OpenAfter(out) ==
    LET cancelled == { c.id : c \in { x \in Range(out) : x.op = "cancel" } }
        accepted == { [id |-> c.id, side |-> c.side, quantity |-> c.quantity, price |-> c.price]
                      : c \in { x \in Range(out) : x.op = "limit" /\ x.id # 0 } }
    IN  { o \in open_orders : o.id \notin cancelled } \cup accepted

IsMarket(c) == c.op = "market"

QueueAfter(out) == market_queue \o SelectSeq(out, IsMarket)

\* ------------------------------------------------------------------ specification
Init ==
    /\ self = reset_state
    /\ open_orders = {}
    /\ market_queue = <<>>
    /\ venue_price = StartPrice
    /\ calls = <<>>
    /\ last = OtherCallback("init")
    /\ n_events = 0
    /\ probe = NoProbe

\* Whether the event makes the engine call place_limit_order.
PlacesLimit(ev) == on_game_event_update(self, ev, 0).info.gate

\* A game event; the venue accepts the limit order (if one is placed) or rejects it.
GameEvent ==
    /\ n_events < MaxEvents
    /\ \E ev \in Events, accept \in BOOLEAN :
        /\ accept => Cardinality(open_orders) < MaxOpen /\ PlacesLimit(ev)
        /\ LET r == on_game_event_update(self, ev, IF accept THEN FreshId ELSE 0)
           IN  /\ self' = r.self
               /\ calls' = r.out
               /\ last' = r.info
               /\ open_orders' = OpenAfter(r.out)
               /\ market_queue' = QueueAfter(r.out)
    /\ n_events' = n_events + 1
    /\ UNCHANGED <<venue_price, probe>>

\* An order-book update with a new price.
PriceTick ==
    /\ \E price \in Prices :
        /\ self' = on_orderbook_update(self, price)
        /\ venue_price' = price
    /\ calls' = <<>>
    /\ last' = OtherCallback("orderbook_update")
    /\ UNCHANGED <<open_orders, market_queue, n_events, probe>>

\* The fill of one of the engine's resting limit orders, at its limit price.
FillLimit ==
    /\ \E o \in open_orders, cap \in CapitalReports :
        /\ self' = on_account_update(self, o.side, o.price, o.quantity, cap)
        /\ open_orders' = open_orders \ {o}
    /\ calls' = <<>>
    /\ last' = OtherCallback("account_update")
    /\ UNCHANGED <<market_queue, venue_price, n_events, probe>>

\* The fill of the engine's oldest market order, at the venue's price.
FillMarket ==
    /\ market_queue # <<>>
    /\ \E cap \in CapitalReports :
        self' = on_account_update(self, Head(market_queue).side, venue_price,
                                  Head(market_queue).quantity, cap)
    /\ market_queue' = Tail(market_queue)
    /\ calls' = <<>>
    /\ last' = OtherCallback("account_update")
    /\ UNCHANGED <<open_orders, venue_price, n_events, probe>>

\* on_trade_update (lines 247-249) prints the trade; it reads and writes no
\* attribute and calls nothing, so it leaves no trace in any variable.
TradeUpdate == UNCHANGED vars

Next == GameEvent \/ PriceTick \/ FillLimit \/ FillMarket \/ TradeUpdate

Spec == Init /\ [][Next]_vars

\* ------------------------------------------------------------------ mid-game specification
\* A game already under way: the engine holds a position and cash that earlier
\* fills left it (portfolio_value marked to the price), possibly tracks one
\* resting order, and has one more game event to process.
MidPositions == { 0, 36363, -36363 }

MidCash ==
    { StartCapital,
      StartCapital + TakeProfit, StartCapital + TakeProfit - 1,
      StartCapital + LateGamePnl, StartCapital + LateGamePnl + 1,
      StartCapital - StopLoss, StartCapital - StopLoss + 1,
      MinTradeSize \div 2, -909090 }

MidClocks == { None, Some(LateGameSeconds), Some(LateGameSeconds - 1) }

RestingOrder(price) == [id |-> 1, side |-> "BUY", quantity |-> QScale, price |-> price]

InitMidGame ==
    /\ \E position \in MidPositions, cash \in MidCash, price \in { StartPrice },
          clock \in MidClocks, tracked \in BOOLEAN :
        /\ self = update_portfolio_value(
                    [reset_state EXCEPT
                        !.position = position,
                        !.cash = cash,
                        !.market_price = price,
                        !.time_remaining = IF clock = None THEN @ ELSE clock[1],
                        !.last_event_time = clock,
                        !.active_orders = IF tracked THEN << 1 >> ELSE << >>])
        /\ open_orders = IF tracked THEN { RestingOrder(price) } ELSE {}
        /\ venue_price = price
    /\ market_queue = <<>>
    /\ calls = <<>>
    /\ last = OtherCallback("init")
    /\ n_events = MaxEvents - 1
    /\ probe = NoProbe

SpecMidGame == InitMidGame /\ [][Next]_vars

\* ------------------------------------------------------------------ should_trade on its own
\* should_trade applied to a model probability `gap` above and `gap` below the
\* probability the market price implies.
ProbePrices == { 40, 50, 55, 100, 145, 150, 160 }

ProbeGaps ==
    { 0 } \cup { ConfidenceThreshold + k : k \in (0 - MaxGap)..MaxGap }
          \cup { 0 - (ConfidenceThreshold + k) : k \in (0 - MaxGap)..MaxGap }
          \cup { 1000 * k : k \in 1..MaxGap }

NoSignal == [trade |-> FALSE, side |-> None, edge |-> 0]

InitShouldTrade ==
    /\ self = reset_state
    /\ open_orders = {}
    /\ market_queue = <<>>
    /\ venue_price = StartPrice
    /\ calls = <<>>
    /\ last = OtherCallback("init")
    /\ n_events = 0
    /\ \E price \in ProbePrices, gap \in ProbeGaps :
          probe = [fn |-> "should_trade", done |-> FALSE, market_price |-> price,
                   gap |-> gap, above |-> NoSignal, below |-> NoSignal]

ApplyShouldTrade ==
    /\ probe.fn = "should_trade"
    /\ ~probe.done
    /\ LET implied == market_price_to_probability(probe.market_price)
       IN  probe' = [probe EXCEPT
                        !.done = TRUE,
                        !.above = should_trade(implied + probe.gap, probe.market_price),
                        !.below = should_trade(implied - probe.gap, probe.market_price)]
    /\ UNCHANGED <<self, open_orders, market_queue, venue_price, calls, last, n_events>>

SpecShouldTrade == InitShouldTrade /\ [][ApplyShouldTrade]_vars

\* ------------------------------------------------------------------ the venue callbacks on their own
\* Strategy states as they stand between two callbacks in the middle of a game:
\* momentum left by earlier plays, a score, a clock, a position and the cash
\* that goes with it, model_prob as the last event computed it.
ProbeMomenta == { <<0, 0>>, <<3 * MScale, 0>>, <<3 * MScale, 0 - 4 * MScale>> }

ProbeClocks == { None, Some(720), Some(576) }

ProbeHoldings == { <<0, StartCapital>>, <<36363, StartCapital - 36363 * StartPrice>>,
                   <<0 - 36363, StartCapital + 36363 * StartPrice>> }

ProbeState(momenta, score, clock, holding, price, tracked) ==
    LET s == [reset_state EXCEPT
                 !.home_momentum = momenta[1],
                 !.away_momentum = momenta[2],
                 !.home_score = score[1],
                 !.away_score = score[2],
                 !.time_remaining = IF clock = None THEN @ ELSE clock[1],
                 !.last_event_time = clock,
                 !.position = holding[1],
                 !.cash = holding[2],
                 !.market_price = price,
                 !.active_orders = IF tracked THEN << 1 >> ELSE << >>]
    IN  update_portfolio_value([s EXCEPT !.model_prob = calculate_true_probability(s)])

ProbeStates ==
    { ProbeState(m, sc, clock, h, price, tracked) :
        m \in ProbeMomenta, sc \in Scores, clock \in ProbeClocks, h \in ProbeHoldings,
        price \in { StartPrice, 140 }, tracked \in BOOLEAN }

FillSides == { "BUY", "SELL" }

FillQuantities == { QScale, 36363 }

InitCallbacks ==
    /\ self \in ProbeStates
    /\ open_orders = IF self.active_orders = <<>> THEN {} ELSE { RestingOrder(self.market_price) }
    /\ market_queue = <<>>
    /\ venue_price = self.market_price
    /\ calls = <<>>
    /\ last = OtherCallback("init")
    /\ n_events = 0
    /\ probe = NoProbe

\* What the probe records of one callback: its arguments, the state it found
\* and the state it left.
Called(fn, side, quantity, price, capital_remaining, after) ==
    [fn |-> fn, side |-> side, quantity |-> quantity, price |-> price,
     capital_remaining |-> capital_remaining, before |-> self, after |-> after]

CallTradeUpdate ==
    /\ probe = NoProbe
    /\ \E side \in FillSides, quantity \in FillQuantities, price \in Prices :
          LET after == on_trade_update(self, side, quantity, price)
          IN  /\ self' = after
              /\ probe' = Called("on_trade_update", side, quantity, price, 0, after)
    /\ calls' = <<>>
    /\ last' = OtherCallback("trade_update")
    /\ UNCHANGED <<open_orders, market_queue, venue_price, n_events>>

CallOrderbookUpdate ==
    /\ probe = NoProbe
    /\ \E side \in FillSides, quantity \in FillQuantities, price \in Prices :
          LET after == on_orderbook_update(self, price)
          IN  /\ self' = after
              /\ probe' = Called("on_orderbook_update", side, quantity, price, 0, after)
              /\ venue_price' = price
    /\ calls' = <<>>
    /\ last' = OtherCallback("orderbook_update")
    /\ UNCHANGED <<open_orders, market_queue, n_events>>

CallAccountUpdate ==
    /\ probe = NoProbe
    /\ \E side \in FillSides, quantity \in FillQuantities, price \in Prices,
          cap \in CapitalReports :
          LET after == on_account_update(self, side, price, quantity, cap)
          IN  /\ self' = after
              /\ probe' = Called("on_account_update", side, quantity, price, cap, after)
    /\ calls' = <<>>
    /\ last' = OtherCallback("account_update")
    /\ UNCHANGED <<open_orders, market_queue, venue_price, n_events>>

NextCallbacks == CallTradeUpdate \/ CallOrderbookUpdate \/ CallAccountUpdate

SpecCallbacks == InitCallbacks /\ [][NextCallbacks]_vars

\* ------------------------------------------------------------------ one game event on its own
\* on_game_event_update applied to a mid-game state, for every event type the
\* code distinguishes, one it does not, and the end of the game.
ProbeKinds ==
    { <<"SCORE", None>>, <<"SCORE", Some("THREE_POINT")>>, <<"SCORE", Some("DUNK")>>,
      <<"MISSED", None>>, <<"TURNOVER", None>>, <<"STEAL", None>>, <<"BLOCK", None>>,
      <<"FOUL", None>>, <<"REBOUND", None>>, <<"END_GAME", None>> }

ProbeStamps == { None, Some(720), Some(576), Some(0), Some(0 - 5) }

ProbeEvents ==
    { Event(k[1], side, k[2], sc, ts) :
        k \in ProbeKinds, side \in {"home", "away"}, sc \in Scores, ts \in ProbeStamps }

InitEventProbe ==
    /\ self \in ProbeStates
    /\ open_orders = IF self.active_orders = <<>> THEN {} ELSE { RestingOrder(self.market_price) }
    /\ market_queue = <<>>
    /\ venue_price = self.market_price
    /\ calls = <<>>
    /\ last = OtherCallback("init")
    /\ n_events = 0
    /\ probe = NoProbe

ApplyGameEvent ==
    /\ probe = NoProbe
    /\ \E ev \in ProbeEvents :
          LET r == on_game_event_update(self, ev, 0)
          IN  /\ self' = r.self
              /\ calls' = r.out
              /\ last' = r.info
              /\ open_orders' = OpenAfter(r.out)
              /\ market_queue' = QueueAfter(r.out)
              /\ probe' = [fn |-> "on_game_event_update", event |-> ev, before |-> self]
    /\ n_events' = n_events + 1
    /\ UNCHANGED venue_price

SpecEventProbe == InitEventProbe /\ [][ApplyGameEvent]_vars

\* ------------------------------------------------------------------ the venue's account of the fills
\* The same engine and venue from construction, with the venue keeping the net
\* signed quantity of the fills it has reported (BUY adds, SELL subtracts).
VenueAccount(position) == [fn |-> "venue", position |-> position]

InitVenue ==
    /\ self = reset_state
    /\ open_orders = {}
    /\ market_queue = <<>>
    /\ venue_price = StartPrice
    /\ calls = <<>>
    /\ last = OtherCallback("init")
    /\ n_events = 0
    /\ probe = VenueAccount(0)

Signed(side, quantity) == IF side = "BUY" THEN quantity ELSE 0 - quantity

\* The fill of a resting limit order, reported through on_account_update.
ReportLimitFill ==
    /\ \E o \in open_orders, cap \in CapitalReports :
        /\ self' = on_account_update(self, o.side, o.price, o.quantity, cap)
        /\ open_orders' = open_orders \ {o}
        /\ probe' = VenueAccount(probe.position + Signed(o.side, o.quantity))
    /\ calls' = <<>>
    /\ last' = OtherCallback("account_update")
    /\ UNCHANGED <<market_queue, venue_price, n_events>>

\* The fill of the oldest market order, reported through on_account_update.
ReportMarketFill ==
    /\ market_queue # <<>>
    /\ \E cap \in CapitalReports :
        self' = on_account_update(self, Head(market_queue).side, venue_price,
                                  Head(market_queue).quantity, cap)
    /\ probe' = VenueAccount(probe.position
                              + Signed(Head(market_queue).side, Head(market_queue).quantity))
    /\ market_queue' = Tail(market_queue)
    /\ calls' = <<>>
    /\ last' = OtherCallback("account_update")
    /\ UNCHANGED <<open_orders, venue_price, n_events>>

NextVenue == GameEvent \/ PriceTick \/ ReportLimitFill \/ ReportMarketFill

SpecVenue == InitVenue /\ [][NextVenue]_vars

\* ------------------------------------------------------------------ properties
IsGameEvent == last.op = "game_event"

MarketCalls(out) == SelectSeq(out, IsMarket)

IsLimit(c) == c.op = "limit"

LimitCalls(out) == SelectSeq(out, IsLimit)

\* The one market order that flattens `position`: none when it is zero.
Flatten(position) ==
    IF position > 0
    THEN << [op |-> "market", side |-> "SELL", quantity |-> position, price |-> 0, id |-> 0] >>
    ELSE IF position < 0
    THEN << [op |-> "market", side |-> "BUY", quantity |-> -position, price |-> 0, id |-> 0] >>
    ELSE << >>

\* The start-of-game values of the attributes the reset claims name.
AtBaseline ==
    /\ self.home_score = 0 /\ self.away_score = 0
    /\ self.time_remaining = 2880
    /\ self.position = 0
    /\ self.cash = 10000000 /\ self.capital = 10000000 /\ self.portfolio_value = 10000000
    /\ self.home_momentum = 0 /\ self.away_momentum = 0
    /\ self.active_orders = <<>>
    /\ self.last_event_time = None

\* C1: a game event of type END_GAME, or one whose time update leaves
\* time_remaining < 3, returns with the state at baseline, whether or not a risk
\* trigger fired in the call, and placed exactly one liquidating market order
\* (opposite to the position held, for its whole size) if the position was
\* non-zero and none if it was zero.
C1_GameEndFlattensAndResets ==
    (IsGameEvent /\ (last.event_type = "END_GAME" \/ last.time_updated < 3)) =>
        /\ AtBaseline
        /\ MarketCalls(calls) = Flatten(last.before.position)

C1_Witness ==
    /\ IsGameEvent
    /\ last.event_type = "END_GAME"
    /\ last.before.position # 0
    /\ last.fired # "none"
    /\ Len(MarketCalls(calls)) = 1

\* C2: whenever check_risk_management fires a trigger it places one market order
\* opposite to the position, for abs(position) shares (none when flat), and
\* leaves capital = cash = portfolio_value = 100000, position = 0, both scores
\* 0 and time_remaining = 2880.
C2_TriggerLiquidatesAndResets ==
    (IsGameEvent /\ last.fired # "none") =>
        /\ last.risk_out = Flatten(last.at_risk.position)
        /\ last.after_risk = [portfolio_value |-> 10000000, cash |-> 10000000,
                              capital |-> 10000000, position |-> 0,
                              time_remaining |-> 2880, home_score |-> 0, away_score |-> 0]

C2_Witness ==
    /\ IsGameEvent
    /\ last.fired = "late_game"
    /\ last.at_risk.position < 0
    /\ last.risk_out = << [op |-> "market", side |-> "BUY", quantity |-> 36363,
                           price |-> 0, id |-> 0] >>

\* C4: between callbacks, portfolio_value = cash + position * market_price.
C4_PortfolioValueIsMarked ==
    self.portfolio_value = self.cash + self.position * self.market_price

C4_Witness ==
    /\ last.op = "orderbook_update"
    /\ self.position # 0
    /\ self.market_price # 55
    /\ self.portfolio_value # 10000000

\* C5 (as claimed): model_prob lies in [0.05, 0.95] in every state between
\* callbacks and at the point where the freshly computed value is passed to
\* should_trade, for every event, those with time_seconds <= 0 included.
C5_ModelProbAlwaysClamped ==
    /\ self.model_prob >= 500 /\ self.model_prob <= 9500
    /\ IsGameEvent => (last.model_prob >= 500 /\ last.model_prob <= 9500)

\* C5 (amended): model_prob lies in [0.05, 0.95] in every state between
\* callbacks; the value passed to should_trade lies in [0.05, 0.95] when the
\* updated time_remaining is positive, and is 1.0, 0.0 or 0.5 when it is <= 0.
C5_ModelProbClampedWhileTimeRemains ==
    /\ self.model_prob >= 500 /\ self.model_prob <= 9500
    /\ IsGameEvent =>
        IF last.time_updated > 0
        THEN last.model_prob >= 500 /\ last.model_prob <= 9500
        ELSE last.model_prob \in {0, 5000, 10000}

C5_Witness ==
    /\ IsGameEvent
    /\ last.time_updated <= 0
    /\ last.model_prob = 0
    /\ self.model_prob = 5500

\* C6: within one game time_remaining never increases: after a game event
\* that does not reset, time_remaining is <= its value before the event.
C6_TimeRemainingNeverIncreases ==
    [][(last'.op = "game_event" /\ last'.fired = "none" /\ ~last'.ended)
         => self'.time_remaining <= self.time_remaining]_vars

\* C7: when should_trade signals a trade, cancel_order is issued for every id
\* in active_orders (and the list emptied) before any new order; then at most
\* one limit order is submitted, at market_price and on the signalled side, and
\* its id is tracked iff it is non-zero.  With no signal nothing is cancelled or
\* submitted and active_orders is unchanged by the step.
C7_CancelThenOneLimitOrder ==
    IsGameEvent =>
        LET old == last.before.active_orders
            out == last.trade_out
            new == LimitCalls(out)
        IN  IF last.signal.trade
            THEN /\ Len(out) = Len(old) + Len(new)
                 /\ \A i \in 1..Len(old) : out[i].op = "cancel" /\ out[i].id = old[i]
                 /\ Len(new) <= 1
                 /\ \A i \in 1..Len(new) :
                        /\ new[i] = out[Len(out)]
                        /\ new[i].price = last.market_price
                        /\ new[i].side = last.signal.side[1]
                 /\ last.traded.active_orders =
                        IF Len(new) = 1 /\ new[1].id # 0 THEN << new[1].id >> ELSE << >>
            ELSE /\ out = << >>
                 /\ last.traded.active_orders = old

C7_Witness ==
    /\ IsGameEvent
    /\ last.signal.trade
    /\ Len(last.before.active_orders) = 1
    /\ Len(last.trade_out) = 2
    /\ last.trade_out[2].op = "limit" /\ last.trade_out[2].id # 0

\* C3: with pnl = portfolio_value - 100000 and kelly_fraction = 1.0,
\* check_risk_management fires exactly the first of: pnl >= 80000 (take-profit),
\* pnl <= -50000 (stop-loss), time_remaining < 600 and abs(score difference) < 5
\* and pnl > 55000 (late-game exit).  pnl = 80000 fires, pnl = 79999 with
\* time_remaining >= 600 does not, pnl = 55000 never fires the late-game exit;
\* when none holds no order is placed and the state is unchanged.
C3_TriggersAtLiteralBoundaries ==
    IsGameEvent =>
        LET r == last.at_risk
            pnl == r.portfolio_value - 10000000
            diff == IF r.home_score >= r.away_score THEN r.home_score - r.away_score
                    ELSE r.away_score - r.home_score
            expected == IF pnl >= 8000000 THEN "take_profit"
                        ELSE IF pnl <= -5000000 THEN "stop_loss"
                        ELSE IF r.time_remaining < 600 /\ diff < 5 /\ pnl > 5500000
                        THEN "late_game"
                        ELSE "none"
        IN  /\ last.fired = expected
            /\ pnl = 8000000 => last.fired = "take_profit"
            /\ (pnl = 7999999 /\ r.time_remaining >= 600) => last.fired = "none"
            /\ pnl = 5500000 => last.fired # "late_game"
            /\ last.fired = "none" => (last.risk_out = << >> /\ last.risk_kept)

C3_Witness ==
    /\ IsGameEvent
    /\ last.at_risk.portfolio_value = 10000000 + 5500000
    /\ last.at_risk.time_remaining < 600
    /\ last.at_risk.home_score = last.at_risk.away_score
    /\ last.fired = "none"

\* C8: every limit order submitted passed the affordability gate: its quantity
\* is > 0 and <= max_position_size (20000), and for a BUY quantity * market_price
\* <= cash.  When a trade is signalled and the gate fails, no limit order is
\* submitted (no retry) and position, cash and capital are unchanged by the step.
C8_LimitOrdersPassTheGate ==
    IsGameEvent =>
        /\ \A i \in 1..Len(calls) :
              calls[i].op = "limit" =>
                  /\ last.gate
                  /\ calls[i].quantity > 0
                  /\ calls[i].quantity <= 2000000
                  /\ calls[i].side = "BUY" =>
                        calls[i].quantity * calls[i].price <= last.before.cash
        /\ (last.signal.trade /\ ~last.gate) =>
              /\ LimitCalls(calls) = << >>
              /\ last.traded.position = last.before.position
              /\ last.traded.cash = last.before.cash
              /\ last.traded.capital = last.before.capital

C8_Witness ==
    /\ IsGameEvent
    /\ last.signal.trade
    /\ last.signal.side = Some("BUY")
    /\ last.quantity > 0
    /\ ~last.gate
    /\ LimitCalls(calls) = << >>

\* C9: calculate_position_size is never negative, is exactly 0 when
\* market_price <= 50 or market_price >= 150, and is at least one share
\* otherwise, for every side and edge and the capital, cash and position of
\* every reachable state; and no limit order is submitted while market_price
\* is <= 50 or >= 150.
SizingEdges == { 0, 301, 2000, 4500, 9000 }

SizingPrices == { 5, 50, 51, 55, 100, 140, 149, 150, 300 }

C9_SizeZeroOnlyAtPriceExtremes ==
    /\ \A side \in {"BUY", "SELL"}, edge \in SizingEdges, price \in SizingPrices :
          LET shares == calculate_position_size(self, edge, side, price)
          IN  /\ shares >= 0
              /\ (price <= 50 \/ price >= 150) => shares = 0
              /\ (price > 50 /\ price < 150) => shares >= 100
    /\ IsGameEvent =>
          /\ last.signal.trade =>
                /\ last.quantity >= 0
                /\ (last.market_price <= 50 \/ last.market_price >= 150) <=> last.quantity = 0
          /\ \A i \in 1..Len(calls) :
                calls[i].op = "limit" => (calls[i].price > 50 /\ calls[i].price < 150)

C9_Witness ==
    /\ IsGameEvent
    /\ last.signal.trade
    /\ last.market_price >= 150
    /\ last.quantity = 0
    /\ calls = << >>

C11_VenueCallbacksExactEffects ==
    (probe # NoProbe /\ probe.fn \in {"on_trade_update", "on_orderbook_update", "on_account_update"}) =>
        LET b == probe.before
            a == probe.after
            signed == IF probe.side = "BUY" THEN probe.quantity ELSE 0 - probe.quantity
        IN  /\ self = a
            /\ calls = << >>
            /\ probe.fn = "on_trade_update" => a = b
            /\ probe.fn = "on_orderbook_update" =>
                  a = [b EXCEPT !.market_price = probe.price,
                                !.portfolio_value = b.cash + b.position * probe.price]
            /\ probe.fn = "on_account_update" =>
                  a = [b EXCEPT !.position = b.position + signed,
                                !.cash = b.cash - signed * probe.price,
                                !.capital = probe.capital_remaining,
                                !.portfolio_value = (b.cash - signed * probe.price)
                                                    + (b.position + signed) * b.market_price]
            /\ a.home_score = b.home_score /\ a.away_score = b.away_score
            /\ a.time_remaining = b.time_remaining
            /\ a.home_momentum = b.home_momentum /\ a.away_momentum = b.away_momentum
            /\ a.model_prob = b.model_prob
            /\ a.last_event_time = b.last_event_time
            /\ a.active_orders = b.active_orders

C11_Witness ==
    /\ probe # NoProbe /\ probe.fn = "on_account_update"
    /\ probe.side = "SELL"
    /\ probe.before.capital # probe.capital_remaining
    /\ probe.before.home_momentum # 0 /\ probe.before.active_orders # << >>
    /\ self.position = probe.before.position - probe.quantity
    /\ self.capital = probe.capital_remaining

\* C12: a game event with time_seconds absent never fails and, unless the call
\* ends in a reset, leaves time_remaining and last_event_time unchanged and
\* applies no decay to either momentum; the scores are still set from the event
\* and the event's impact is still added to the acting side's momentum.
C12_UntimedEventSkipsClockAndDecay ==
    (probe.fn = "on_game_event_update" /\ probe.event.time_seconds = << >>
        /\ last.fired = "none" /\ ~last.ended) =>
        LET b == probe.before
            ev == probe.event
            impact == get_event_impact(ev.event_type, ev.home_away, ev.shot_type)
        IN  /\ self.time_remaining = b.time_remaining
            /\ self.last_event_time = b.last_event_time
            /\ self.home_score = ev.home_score /\ self.away_score = ev.away_score
            /\ self.home_momentum = b.home_momentum + (IF ev.home_away = "home" THEN impact ELSE 0)
            /\ self.away_momentum = b.away_momentum + (IF ev.home_away = "home" THEN 0 ELSE impact)

C12_Witness ==
    /\ probe.fn = "on_game_event_update" /\ probe.event.time_seconds = << >>
    /\ last.fired = "none" /\ ~last.ended
    /\ probe.event.event_type = "SCORE" /\ probe.event.home_away = "home"
    /\ probe.before.last_event_time = << 576 >>
    /\ probe.before.home_momentum = 3000 /\ probe.before.away_momentum = -4000
    /\ self.home_momentum = 6000 /\ self.away_momentum = -4000
    /\ self.home_score # probe.before.home_score
    /\ self.time_remaining = 576

\* C13: with time_remaining <= 0 calculate_true_probability returns exactly 1.0
\* when home_score > away_score, 0.0 when home_score < away_score and 0.5 when
\* the scores are equal, whatever the momenta; and that unclamped value is the
\* model_prob used for the trade decision of an event with time_seconds <= 0.
C13_TerminalCertainty ==
    LET Certain(home, away) == IF home > away THEN 10000 ELSE IF home < away THEN 0 ELSE 5000
    IN  /\ \A t \in {0, -5}, hm \in {-5000, 0, 9000}, am \in {-4000, 0, 9000} :
              calculate_true_probability([self EXCEPT !.time_remaining = t,
                                                      !.home_momentum = hm,
                                                      !.away_momentum = am])
                  = Certain(self.home_score, self.away_score)
        /\ (probe.fn = "on_game_event_update" /\ probe.event.time_seconds # << >>
                /\ probe.event.time_seconds[1] <= 0) =>
              /\ last.model_prob = Certain(probe.event.home_score, probe.event.away_score)
              /\ last.signal = should_trade(last.model_prob, probe.before.market_price)

C13_Witness ==
    /\ probe.fn = "on_game_event_update"
    /\ probe.event.time_seconds = << 0 >>
    /\ probe.event.home_score > probe.event.away_score
    /\ probe.before.away_momentum # 0
    /\ last.model_prob = 10000
    /\ last.signal.trade /\ last.signal.side = << "BUY" >>

\* C14: the risk triggers are evaluated on every game event: when
\* on_game_event_update has returned, pnl = portfolio_value - 100000 satisfies
\* -50000 < pnl < 80000, and it is not the case that time_remaining < 600 and
\* abs(home_score - away_score) < 5 and pnl > 55000, whatever price ticks and
\* fills came before the event.
C14_NoTriggerConditionSurvivesAnEvent ==
    IsGameEvent =>
        LET pnl == self.portfolio_value - 10000000
            diff == IF self.home_score >= self.away_score
                    THEN self.home_score - self.away_score
                    ELSE self.away_score - self.home_score
        IN  /\ pnl > -5000000
            /\ pnl < 8000000
            /\ ~(self.time_remaining < 600 /\ diff < 5 /\ pnl > 5500000)

C14_Witness ==
    /\ IsGameEvent
    /\ venue_price = 300
    /\ last.before.cash = 10000000 /\ last.before.position = 36363
    /\ last.at_risk.portfolio_value - 10000000 >= 8000000
    /\ last.fired = "take_profit"
    /\ self.portfolio_value = 10000000

\* C15: max_position_size caps the position at $20,000: in every reachable
\* state, after any game events, price ticks and fills of the engine's own
\* orders, abs(position) * market_price <= 20000.
C15_PositionValueWithinCap ==
    (IF self.position < 0 THEN 0 - self.position ELSE self.position) * self.market_price
        <= 2000000

\* C16: market_price is the last observed market price: once on_orderbook_update
\* has been called, market_price equals the price of the most recent
\* on_orderbook_update call in every later state, and every limit order is
\* submitted at that price, also by the first game event after a reset.
\* (venue_price is that price; before the first call both are 55.)
C16_MarketPriceIsLastObserved ==
    /\ self.market_price = venue_price
    /\ IsGameEvent =>
          \A i \in 1..Len(calls) : calls[i].op = "limit" => calls[i].price = venue_price

\* C17: active_orders holds at most one order id in every reachable state, and
\* no operation other than a game event (whose trade decision empties the list
\* before appending at most one new id) changes it.
C17_AtMostOneActiveOrder ==
    /\ [](Len(self.active_orders) <= 1)
    /\ [][last'.op # "game_event" => self'.active_orders = self.active_orders]_vars

C17_Witness ==
    /\ IsGameEvent
    /\ Len(last.before.active_orders) = 1
    /\ Len(self.active_orders) = 1
    /\ self.active_orders # last.before.active_orders
    /\ Cardinality(open_orders) = 1

\* C18: every limit order the venue accepted (non-zero id) that is neither
\* filled nor cancelled is tracked in active_orders, in every reachable state,
\* also right after a risk-trigger or game-end reset and after an event that
\* submits a limit order and resets in the same call.
C18_OpenOrdersAreTracked ==
    \A o \in open_orders : \E i \in 1..Len(self.active_orders) : self.active_orders[i] = o.id

\* C19: with fills reported asynchronously through on_account_update, whenever
\* every order the engine has placed has been filled and reported or cancelled,
\* position equals the net signed quantity of those fills at the venue; after
\* a liquidation, the reset and the later report of the liquidation fill,
\* position is 0.
C19_PositionMatchesVenueFills ==
    (probe.fn = "venue" /\ open_orders = {} /\ market_queue = << >>) =>
        self.position = probe.position

\* C20: for fixed scores, fixed time_remaining > 0 and no decay (dt = 0), an
\* event favourable to the away side (away SCORE, STEAL or BLOCK) never yields
\* a higher model_prob than before the event, one favourable to the home side
\* (home SCORE, STEAL or BLOCK) never a lower one, and an unfavourable away
\* event (away MISSED, TURNOVER or FOUL) never lowers model_prob.
C20_EventsMoveModelProbTowardBeneficiary ==
    (probe.fn = "on_game_event_update"
        /\ probe.event.home_score = probe.before.home_score
        /\ probe.event.away_score = probe.before.away_score
        /\ probe.before.time_remaining > 0
        /\ \/ probe.event.time_seconds = << >>
           \/ /\ probe.event.time_seconds = << probe.before.time_remaining >>
              /\ probe.before.last_event_time \in { << >>, probe.event.time_seconds }) =>
        LET ev == probe.event
            favourable == ev.event_type \in {"SCORE", "STEAL", "BLOCK"}
            unfavourable == ev.event_type \in {"MISSED", "TURNOVER", "FOUL"}
        IN  /\ (ev.home_away = "away" /\ favourable) => last.model_prob <= probe.before.model_prob
            /\ (ev.home_away = "home" /\ favourable) => last.model_prob >= probe.before.model_prob
            /\ (ev.home_away = "away" /\ unfavourable) => last.model_prob >= probe.before.model_prob

====
